---- MODULE Spec2Model ----
(***************************************************************************)
(* A model of UbiquitiCrawler (crawler.js, carried in src/README.md from   *)
(* line 73 on) with its configuration (config.js, src/unnamed/part_000).   *)
(*                                                                         *)
(* A URL is the sequence of its '/'-separated parts after the scheme, so   *)
(* "https://store.ui.com/us/collections/a" is                              *)
(* <<"store.ui.com", "us", "collections", "a">>.  String.startsWith and    *)
(* String.includes are computed on these sequences.                        *)
(*                                                                         *)
(* Spec is the whole run of main(): init(), the crawl loop, the product    *)
(* calls under the limiter, browser.close().  SpecMedia follows one        *)
(* processProductPage call step by step, SpecDigest two calls side by side *)
(* with their product directories and their appends to all_content.txt.    *)
(* SpecCategory, SpecLinks and SpecSpecs apply utils.determineCategory,    *)
(* utils.extractLinks and ProductParser.extractProductSpecifications to    *)
(* bounded sets of arguments.                                              *)
(***************************************************************************)
EXTENDS Integers, Sequences, FiniteSets, TLC

(***************************************************************************)
(* Bounds.  MaxPages and Concurrency stand for config.maxPages (1000) and  *)
(* config.crawlSettings.concurrency (5), scaled down; MaxLinks bounds the  *)
(* number of anchors a fetched page carries.                               *)
(***************************************************************************)
MaxPages == 3
Concurrency == 1
MaxLinks == 2

(***************************************************************************)
(* config.js                                                               *)
(***************************************************************************)
baseUrl == <<"store.ui.com", "us">>

\* A pattern is the parts it spells and whether it ends in '/', in which
\* case a further part (possibly empty) has to follow the match.
includePatterns ==
  { [parts |-> <<"us", "products">>, slash |-> TRUE],
    [parts |-> <<"us", "collections">>, slash |-> TRUE] }

excludePatterns ==
  { [parts |-> <<"cart">>, slash |-> FALSE],
    [parts |-> <<"account">>, slash |-> FALSE],
    [parts |-> <<"search">>, slash |-> FALSE],
    [parts |-> <<"pages">>, slash |-> TRUE],
    [parts |-> <<"policies">>, slash |-> TRUE] }

productMarker == [parts |-> <<"products">>, slash |-> TRUE]

(***************************************************************************)
(* The URLs the modelled site can link to.                                 *)
(***************************************************************************)
CollA    == <<"store.ui.com", "us", "collections", "a">>
CollB    == <<"store.ui.com", "us", "collections", "b">>
ProdX    == <<"store.ui.com", "us", "products", "x">>
ProdY    == <<"store.ui.com", "us", "collections", "a", "products", "y">>
CollC    == <<"store.ui.com", "us", "collections", "c">>
CartProd == <<"store.ui.com", "us", "cart", "products", "x">>
External == <<"other.example", "us", "products", "x">>

Urls == { baseUrl, CollA, CollB, CollC, ProdX, ProdY, CartProd, External }

(***************************************************************************)
(* String and collection helpers                                           *)
(***************************************************************************)
\* link.startsWith(prefix)
StartsWith(link, prefix) ==
  /\ Len(link) >= Len(prefix)
  /\ SubSeq(link, 1, Len(prefix)) = prefix

\* link.includes(pattern)
Includes(link, pat) ==
  \E i \in 1..Len(link) :
    LET last == i + Len(pat.parts) - 1 IN
      /\ last <= Len(link)
      /\ SubSeq(link, i, last) = pat.parts
      /\ pat.slash => last < Len(link)

\* Array.prototype.includes
InSeq(x, s) == \E i \in 1..Len(s) : s[i] = x

SeqToSet(s) == { s[i] : i \in 1..Len(s) }

NoRepeats(s) == \A i, j \in 1..Len(s) : s[i] = s[j] => i = j

\* Array.prototype.push in place of Set.prototype.add
SetAdd_Push(s, x) == Append(s, x)

\* Set.prototype.add on a Set kept in insertion order
SetAdd(s, x) == IF InSeq(x, s) THEN s ELSE Append(s, x)

\* config.patterns.exclude.some(pattern => link.includes(pattern))
IsExcluded(link) == \E p \in excludePatterns : Includes(link, p)

\* config.patterns.include.some(pattern => link.includes(pattern))
MatchesInclude(link) == \E p \in includePatterns : Includes(link, p)

\* link.includes('/products/')
IsProductLink(link) == Includes(link, productMarker)

\* Sequences over S of length at most n
SeqsUpTo(S, n) == UNION { [1..k -> S] : k \in 0..n }

(***************************************************************************)
(* State                                                                   *)
(***************************************************************************)
VARIABLES
  pc,            \* where start() (and main() around it) stands
  browser,       \* this.browser: "none", "open" or "closed"
  visitedUrls,   \* this.visitedUrls
  productUrls,   \* this.productUrls, a Set, in insertion order
  urlsToVisit,   \* this.urlsToVisit
  pageCount,     \* pageCount of start()
  awaited,       \* the URL whose processPage call start() awaits
  pageTasks,     \* processPage calls in flight: URL -> its step and the
                 \* branches that dropped one of its links
  openPages,     \* browser pages opened and not closed
  limitQueue,    \* calls handed to this.limit and not yet started
  productTasks,  \* processProductPage calls in flight: URL -> step
  fetchLog,      \* history: the URLs passed to processPage, in order
  productLog,    \* history: the URLs passed to processProductPage, in order
  iterations,    \* history: crawl-loop iterations begun
  delays,        \* history: politeness delays completed
  crawlFailed,   \* history: crawl URLs whose processPage caught an error
  productFailed, \* history: product URLs whose processProductPage caught one
  rediscovered,  \* history: a product link was met when already in productUrls
  stepLog,       \* history: URL -> the steps processProductPage finished for it
  digestFile,    \* all_content.txt: the chunks written to it, in file order
  outDir,        \* history: URL -> the product directory computed for it
  arg,           \* the arguments of the function a specification applies
  result         \* what the function returned for arg

progVars == << pc, browser, visitedUrls, productUrls, urlsToVisit, pageCount,
               awaited, pageTasks, openPages, limitQueue, productTasks >>
histVars == << fetchLog, productLog, iterations, delays, crawlFailed,
               productFailed, rediscovered >>
\* what the specifications of single functions and of one product call add
auxVars == << stepLog, digestFile, outDir, arg, result >>
vars == << progVars, histVars, auxVars >>

NoValue == "none"

\* arg and result hold one value once set: no arguments, no result yet
Unset == <<>>

NoTasks == [u \in {} |-> "none"]

\* f without the entry of u
Without(f, u) == [v \in DOMAIN f \ {u} |-> f[v]]

InFlight(f) == DOMAIN f

(***************************************************************************)
(* processPage: the loop over the links of a fetched page.  st carries     *)
(* productUrls, urlsToVisit, whether a known product link was met again,   *)
(* and the branches that dropped a link of this page.                      *)
(***************************************************************************)
Took(st, branch) == [st EXCEPT !.took = @ \cup {branch}]

\* the include test moved in front of the product test
Classify_IncludeFirst(link) ==
  IF ~StartsWith(link, baseUrl) THEN "external"
  ELSE IF IsExcluded(link) THEN "excluded"
  ELSE IF MatchesInclude(link) THEN "crawl"
  ELSE IF IsProductLink(link) THEN "product"
  ELSE "other"

\* the product test moved in front of the exclude test
Classify_ProductFirst(link) ==
  IF ~StartsWith(link, baseUrl) THEN "external"
  ELSE IF IsProductLink(link) THEN "product"
  ELSE IF IsExcluded(link) THEN "excluded"
  ELSE IF MatchesInclude(link) THEN "crawl"
  ELSE "other"

\* lines 203-221: which branch of the loop body a link takes
Classify(link) ==
  IF ~StartsWith(link, baseUrl) THEN "external"
  ELSE IF IsExcluded(link) THEN "excluded"
  ELSE IF IsProductLink(link) THEN "product"
  ELSE IF MatchesInclude(link) THEN "crawl"
  ELSE "other"

LinkClass == [u \in Urls |-> Classify(u)]

\* the branch a link to an already visited URL is recorded under
VisitedBranch(link) == IF link \in crawlFailed THEN "failed" ELSE "visited"

\* line 222 without its visitedUrls test
Push_Unshift(q, x) == << x >> \o q

\* this.urlsToVisit.push(link)
Push(q, x) == Append(q, x)

ProcessLink_NoQueuedTest(st, link) ==
  CASE LinkClass[link] = "external" -> Took(st, "external")
    [] LinkClass[link] = "excluded" -> Took(st, "excluded")
    [] LinkClass[link] = "product" ->
         [st EXCEPT !.productUrls = SetAdd(@, link),
                    !.again = @ \/ InSeq(link, st.productUrls)]
    [] LinkClass[link] = "crawl" ->
         IF link \in visitedUrls THEN Took(st, VisitedBranch(link))
         ELSE [st EXCEPT !.urlsToVisit = Push(@, link)]
    [] OTHER -> st

ProcessLink_NoVisitedTest(st, link) ==
  CASE LinkClass[link] = "external" -> Took(st, "external")
    [] LinkClass[link] = "excluded" -> Took(st, "excluded")
    [] LinkClass[link] = "product" ->
         [st EXCEPT !.productUrls = SetAdd(@, link),
                    !.again = @ \/ InSeq(link, st.productUrls)]
    [] LinkClass[link] = "crawl" ->
         IF InSeq(link, st.urlsToVisit) THEN Took(st, "queued")
         ELSE [st EXCEPT !.urlsToVisit = Push(@, link)]
    [] OTHER -> st

\* lines 203-226, one pass of the for loop
ProcessLink(st, link) ==
  CASE LinkClass[link] = "external" -> Took(st, "external")
    [] LinkClass[link] = "excluded" -> Took(st, "excluded")
    [] LinkClass[link] = "product" ->
         [st EXCEPT !.productUrls = SetAdd(@, link),
                    !.again = @ \/ InSeq(link, st.productUrls)]
    [] LinkClass[link] = "crawl" ->
         IF link \in visitedUrls THEN Took(st, VisitedBranch(link))
         ELSE IF InSeq(link, st.urlsToVisit) THEN Took(st, "queued")
         ELSE [st EXCEPT !.urlsToVisit = Push(@, link)]
    [] OTHER -> st

\* what document.querySelectorAll('a') can give for a page, lines 189-200
PageLinks == SeqsUpTo(Urls, MaxLinks)

RECURSIVE LinkLoop(_, _)
LinkLoop(st, links) ==
  IF links = <<>> THEN st
  ELSE LinkLoop(ProcessLink(st, Head(links)), Tail(links))

(***************************************************************************)
(* init() and start(), phase 1                                             *)
(***************************************************************************)
\* the fields as the constructor leaves them, nothing called yet
Constructed ==
  /\ pc = "new"
  /\ browser = "none"
  /\ visitedUrls = {}
  /\ productUrls = <<>>
  /\ urlsToVisit = <<>>
  /\ pageCount = 0
  /\ awaited = <<>>
  /\ pageTasks = NoTasks
  /\ openPages = 0
  /\ limitQueue = <<>>
  /\ productTasks = NoTasks
  /\ fetchLog = <<>>
  /\ productLog = <<>>
  /\ iterations = 0
  /\ delays = 0
  /\ crawlFailed = {}
  /\ productFailed = {}
  /\ rediscovered = FALSE

\* nothing written, no function applied
AuxIdle ==
  /\ stepLog = NoValue
  /\ digestFile = <<>>
  /\ outDir = NoValue
  /\ arg = Unset
  /\ result = Unset

Init == Constructed /\ AuxIdle

\* init(): the browser is launched, or main() exits on the error
InitCrawler ==
  /\ UNCHANGED auxVars
  /\ pc = "new"
  /\ \E ok \in BOOLEAN :
       IF ok THEN browser' = "open" /\ pc' = "ready"
             ELSE browser' = browser /\ pc' = "exit"
  /\ UNCHANGED << visitedUrls, productUrls, urlsToVisit, pageCount, awaited,
                  pageTasks, openPages, limitQueue, productTasks, histVars >>

\* start(), up to the while loop
Start ==
  /\ UNCHANGED auxVars
  /\ pc = "ready"
  /\ urlsToVisit' = Append(urlsToVisit, baseUrl)
  /\ pageCount' = 0
  /\ pc' = "loop"
  /\ UNCHANGED << browser, visitedUrls, productUrls, awaited, pageTasks,
                  openPages, limitQueue, productTasks, histVars >>

\* the page cap tested with <= in place of <
LoopCond_OffByOne == Len(urlsToVisit) > 0 /\ pageCount <= MaxPages

\* the condition of the while loop
LoopCond == Len(urlsToVisit) > 0 /\ pageCount < MaxPages

\* the URL is not recorded as visited
MarkVisited_Forgotten(url) == visitedUrls

\* this.visitedUrls.add(url)
MarkVisited(url) == visitedUrls \cup {url}

\* one iteration, from the shift to the call of processPage
Pop ==
  /\ UNCHANGED auxVars
  /\ pc = "loop"
  /\ LoopCond
  /\ LET url == Head(urlsToVisit) IN
       /\ urlsToVisit' = Tail(urlsToVisit)
       /\ iterations' = iterations + 1
       /\ IF url \in visitedUrls
            THEN /\ pc' = "loop"
                 /\ UNCHANGED << visitedUrls, awaited, pageTasks, fetchLog >>
            ELSE /\ visitedUrls' = MarkVisited(url)
                 /\ pageTasks' = (url :> [step |-> "newPage", took |-> {}]) @@ pageTasks
                 /\ fetchLog' = Append(fetchLog, url)
                 /\ awaited' = url
                 /\ pc' = "await"
  /\ UNCHANGED << browser, productUrls, pageCount, openPages, limitQueue,
                  productTasks, productLog, delays, crawlFailed,
                  productFailed, rediscovered >>

\* await this.browser.newPage()
NewPage(u) ==
  /\ UNCHANGED auxVars
  /\ u \in InFlight(pageTasks)
  /\ pageTasks[u].step = "newPage"
  /\ browser = "open"
  /\ pageTasks' = [pageTasks EXCEPT ![u].step = "goto"]
  /\ openPages' = openPages + 1
  /\ UNCHANGED << pc, browser, visitedUrls, productUrls, urlsToVisit,
                  pageCount, awaited, limitQueue, productTasks, histVars >>

\* the page is set up and loaded, its anchors are read and looped over
Navigate(u) ==
  /\ UNCHANGED auxVars
  /\ u \in InFlight(pageTasks)
  /\ pageTasks[u].step = "goto"
  /\ \E links \in PageLinks :
       LET st == LinkLoop([productUrls |-> productUrls,
                           urlsToVisit |-> urlsToVisit,
                           again |-> rediscovered,
                           took |-> {}], links) IN
         /\ productUrls' = st.productUrls
         /\ urlsToVisit' = st.urlsToVisit
         /\ rediscovered' = st.again
         /\ pageTasks' = [pageTasks EXCEPT
                            ![u] = [step |-> "close", took |-> st.took]]
  /\ UNCHANGED << pc, browser, visitedUrls, pageCount, awaited, openPages,
                  limitQueue, productTasks, fetchLog, productLog, iterations,
                  delays, crawlFailed, productFailed >>

\* await page.close(), and processPage returns
ClosePage(u) ==
  /\ UNCHANGED auxVars
  /\ u \in InFlight(pageTasks)
  /\ pageTasks[u].step = "close"
  /\ pageTasks' = Without(pageTasks, u)
  /\ openPages' = openPages - 1
  /\ UNCHANGED << pc, browser, visitedUrls, productUrls, urlsToVisit,
                  pageCount, awaited, limitQueue, productTasks, histVars >>

\* the catch block of processPage: the error is logged, the call returns
CatchPageError(u) ==
  /\ UNCHANGED auxVars
  /\ pageTasks' = Without(pageTasks, u)
  /\ crawlFailed' = crawlFailed \cup {u}
  /\ UNCHANGED << pc, browser, visitedUrls, productUrls, urlsToVisit,
                  pageCount, awaited, openPages, limitQueue, productTasks,
                  fetchLog, productLog, iterations, delays, productFailed,
                  rediscovered >>

\* any awaited call inside the try block of processPage throws
PageFails(u) ==
  /\ u \in InFlight(pageTasks)
  /\ CatchPageError(u)

\* processPage called without await
PageReturned_NoAwait(u) == TRUE

\* await this.processPage(url) has returned
PageReturned(u) == u \notin InFlight(pageTasks)

\* the delay left out after a page that failed
AfterPage_NoDelayOnError ==
  /\ UNCHANGED auxVars
  /\ pc = "await"
  /\ PageReturned(awaited)
  /\ pageCount' = pageCount + 1
  /\ pc' = IF awaited \in crawlFailed THEN "loop" ELSE "delay"
  /\ UNCHANGED << browser, visitedUrls, productUrls, urlsToVisit, awaited,
                  pageTasks, openPages, limitQueue, productTasks, histVars >>

\* pageCount++ after the awaited call
AfterPage ==
  /\ UNCHANGED auxVars
  /\ pc = "await"
  /\ PageReturned(awaited)
  /\ pageCount' = pageCount + 1
  /\ pc' = "delay"
  /\ UNCHANGED << browser, visitedUrls, productUrls, urlsToVisit, awaited,
                  pageTasks, openPages, limitQueue, productTasks, histVars >>

\* await new Promise(resolve => setTimeout(resolve, delay))
Delay ==
  /\ UNCHANGED auxVars
  /\ pc = "delay"
  /\ delays' = delays + 1
  /\ pc' = "loop"
  /\ UNCHANGED << browser, visitedUrls, productUrls, urlsToVisit,
                  pageCount, awaited, pageTasks, openPages, limitQueue,
                  productTasks, fetchLog, productLog, iterations,
                  crawlFailed, productFailed, rediscovered >>

(***************************************************************************)
(* start(), phase 2: the product pages under this.limit                    *)
(***************************************************************************)
\* the while loop is left; every product URL is handed to this.limit
ExitLoop ==
  /\ UNCHANGED auxVars
  /\ pc = "loop"
  /\ ~LoopCond
  /\ limitQueue' = productUrls
  /\ pc' = "phase2"
  /\ UNCHANGED << browser, visitedUrls, productUrls, urlsToVisit, pageCount,
                  awaited, pageTasks, openPages, productTasks, histVars >>

\* no limit on the calls in flight
CanStart_Unlimited == TRUE

\* pLimit(config.crawlSettings.concurrency): room for one more call
CanStart == Cardinality(InFlight(productTasks)) < Concurrency

\* this.limit starts the oldest waiting call of processProductPage
StartProduct ==
  /\ UNCHANGED auxVars
  /\ limitQueue # <<>>
  /\ CanStart
  /\ LET u == Head(limitQueue) IN
       /\ productTasks' = (u :> "newPage") @@ productTasks
       /\ productLog' = Append(productLog, u)
  /\ limitQueue' = Tail(limitQueue)
  /\ UNCHANGED << pc, browser, visitedUrls, productUrls, urlsToVisit,
                  pageCount, awaited, pageTasks, openPages, fetchLog,
                  iterations, delays, crawlFailed, productFailed, rediscovered >>

\* await this.browser.newPage()
ProductNewPage(u) ==
  /\ UNCHANGED auxVars
  /\ u \in InFlight(productTasks)
  /\ productTasks[u] = "newPage"
  /\ browser = "open"
  /\ productTasks' = [productTasks EXCEPT ![u] = "goto"]
  /\ openPages' = openPages + 1
  /\ UNCHANGED << pc, browser, visitedUrls, productUrls, urlsToVisit,
                  pageCount, awaited, pageTasks, limitQueue, histVars >>

\* what follows a step of processProductPage
NextProductStep(step) ==
  CASE step = "goto" -> "work"
    [] step = "work" -> "close"

\* the page is loaded and parsed ("goto"); the directories, the report, the
\* digest block and the screenshot are written and the images, videos and
\* PDFs are downloaded ("work")
ProductStep(u) ==
  /\ UNCHANGED auxVars
  /\ u \in InFlight(productTasks)
  /\ productTasks[u] \in {"goto", "work"}
  /\ productTasks' = [productTasks EXCEPT ![u] = NextProductStep(@)]
  /\ UNCHANGED << pc, browser, visitedUrls, productUrls, urlsToVisit,
                  pageCount, awaited, pageTasks, openPages, limitQueue,
                  histVars >>

\* await page.close(), and processProductPage returns
ProductClosePage(u) ==
  /\ UNCHANGED auxVars
  /\ u \in InFlight(productTasks)
  /\ productTasks[u] = "close"
  /\ productTasks' = Without(productTasks, u)
  /\ openPages' = openPages - 1
  /\ UNCHANGED << pc, browser, visitedUrls, productUrls, urlsToVisit,
                  pageCount, awaited, pageTasks, limitQueue, histVars >>

\* no catch block: the error rejects Promise.all and start(), main() exits
CatchProductError_Rethrow(u) ==
  /\ UNCHANGED auxVars
  /\ productTasks' = Without(productTasks, u)
  /\ productFailed' = productFailed \cup {u}
  /\ pc' = "exit"
  /\ UNCHANGED << browser, visitedUrls, productUrls, urlsToVisit,
                  pageCount, awaited, pageTasks, openPages, limitQueue,
                  fetchLog, productLog, iterations, delays, crawlFailed,
                  rediscovered >>

CatchProductError_KeepsSlot(u) ==
  /\ UNCHANGED auxVars
  /\ productTasks' = [productTasks EXCEPT ![u] = "failed"]
  /\ productFailed' = productFailed \cup {u}
  /\ UNCHANGED << pc, browser, visitedUrls, productUrls, urlsToVisit,
                  pageCount, awaited, pageTasks, openPages, limitQueue,
                  fetchLog, productLog, iterations, delays, crawlFailed,
                  rediscovered >>

\* the catch block of processProductPage: logged, the call returns
CatchProductError(u) ==
  /\ UNCHANGED auxVars
  /\ productTasks' = Without(productTasks, u)
  /\ productFailed' = productFailed \cup {u}
  /\ UNCHANGED << pc, browser, visitedUrls, productUrls, urlsToVisit,
                  pageCount, awaited, pageTasks, openPages, limitQueue,
                  fetchLog, productLog, iterations, delays, crawlFailed,
                  rediscovered >>

\* any awaited call inside the try block of processProductPage throws
ProductFails(u) ==
  /\ u \in InFlight(productTasks)
  /\ CatchProductError(u)

AllSettled_NotAwaited == TRUE

\* await Promise.all(productPromises) has resolved
AllSettled == limitQueue = <<>> /\ InFlight(productTasks) = {}

AwaitAll ==
  /\ UNCHANGED auxVars
  /\ pc = "phase2"
  /\ AllSettled
  /\ pc' = "closing"
  /\ UNCHANGED << browser, visitedUrls, productUrls, urlsToVisit, pageCount,
                  awaited, pageTasks, openPages, limitQueue, productTasks,
                  histVars >>

\* await this.browser.close()
CloseBrowser ==
  /\ UNCHANGED auxVars
  /\ pc = "closing"
  /\ browser' = "closed"
  /\ pc' = "done"
  /\ UNCHANGED << visitedUrls, productUrls, urlsToVisit, pageCount, awaited,
                  pageTasks, openPages, limitQueue, productTasks, histVars >>

Next ==
  \/ InitCrawler
  \/ Start
  \/ Pop
  \/ \E u \in Urls : NewPage(u)
  \/ \E u \in Urls : Navigate(u)
  \/ \E u \in Urls : ClosePage(u)
  \/ \E u \in Urls : PageFails(u)
  \/ AfterPage
  \/ Delay
  \/ ExitLoop
  \/ StartProduct
  \/ \E u \in Urls : ProductNewPage(u)
  \/ \E u \in Urls : ProductStep(u)
  \/ \E u \in Urls : ProductClosePage(u)
  \/ \E u \in Urls : ProductFails(u)
  \/ AwaitAll
  \/ CloseBrowser

Spec == Init /\ [][Next]_vars

\* every awaited call returns, with a result or an error, and the event
\* loop runs whatever is ready: some step is taken whenever one is possible
SpecLive == Spec /\ WF_vars(Next)

(***************************************************************************)
(* processProductPage, step by step, for one call.  SpecMedia starts where *)
(* this.limit has just started the call for the one product URL the seed   *)
(* page linked, and follows it to its return.  productTasks[u] is the      *)
(* call's position: its step, the links extractLinks found per file type,  *)
(* and the index of the download loop it is in.                            *)
(***************************************************************************)
MaxMedia == 2

\* the awaited steps of processProductPage in program order
StepOrder ==
  << "goto", "ensureDir", "writeFile", "appendToFile", "screenshot",
     "images", "videos", "pdfs" >>

IndexOf(s, x) == CHOOSE i \in 1..Len(s) : s[i] = x

NextStep_ScreenshotFirst(step) ==
  CASE step = "goto" -> "screenshot"
    [] step = "screenshot" -> "ensureDir"
    [] step = "appendToFile" -> "images"
    [] step = "pdfs" -> "close"
    [] OTHER -> StepOrder[IndexOf(StepOrder, step) + 1]

\* the step that follows a finished step; page.close() follows the last
NextStep(step) ==
  IF step = "pdfs" THEN "close"
  ELSE StepOrder[IndexOf(StepOrder, step) + 1]

NoLinks == [k \in {"images", "videos", "pdfs"} |-> 0]

LinkCounts == [{"images", "videos", "pdfs"} -> 0..MaxMedia]

\* what one product call has done so far
NoSteps ==
  [done |-> <<>>, attempts |-> <<>>, links |-> NoLinks,
   thrownAt |-> NoValue, ended |-> "no"]

\* the block appendToFile writes: allContentEntry, then the suffix it adds
Block(u) == << [url |-> u, part |-> "entry"], [url |-> u, part |-> "suffix"] >>

\* start() has crawled the seed page, found one product link, and the
\* limiter has started the call for it
MediaInit ==
  /\ pc = "phase2"
  /\ browser = "open"
  /\ visitedUrls = {baseUrl}
  /\ productUrls = << ProdX >>
  /\ urlsToVisit = <<>>
  /\ pageCount = 1
  /\ awaited = <<>>
  /\ pageTasks = NoTasks
  /\ openPages = 0
  /\ limitQueue = <<>>
  /\ productTasks = [u \in {ProdX} |-> [step |-> "newPage", i |-> 0, links |-> NoLinks]]
  /\ fetchLog = << baseUrl >>
  /\ productLog = << ProdX >>
  /\ iterations = 1
  /\ delays = 1
  /\ crawlFailed = {}
  /\ productFailed = {}
  /\ rediscovered = FALSE
  /\ stepLog = [u \in {ProdX} |-> NoSteps]
  /\ digestFile = <<>>
  /\ outDir = NoValue
  /\ arg = Unset
  /\ result = Unset

MediaUrls == { ProdX }

AtStep(u, steps) ==
  /\ u \in DOMAIN productTasks
  /\ stepLog[u].ended = "no"
  /\ productTasks[u].step \in steps

MediaFrame ==
  UNCHANGED << pc, browser, visitedUrls, productUrls, urlsToVisit, pageCount,
               awaited, pageTasks, limitQueue, fetchLog, productLog,
               iterations, delays, crawlFailed, rediscovered, outDir, arg,
               result >>

\* const page = await this.browser.newPage(), and the two page settings
OpenProductPage(u) ==
  /\ AtStep(u, {"newPage"})
  /\ productTasks' = [productTasks EXCEPT ![u].step = "goto"]
  /\ openPages' = openPages + 1
  /\ UNCHANGED << productFailed, stepLog, digestFile >>
  /\ MediaFrame

\* page.goto and page.content succeed; the three extractLinks calls are
\* functions of the html, so the numbers of links are fixed here
FetchProduct(u) ==
  /\ AtStep(u, {"goto"})
  /\ \E links \in LinkCounts :
       /\ productTasks' = [productTasks EXCEPT ![u].step = NextStep("goto"),
                                               ![u].links = links]
       /\ stepLog' = [stepLog EXCEPT ![u].done = Append(@, "goto"),
                                     ![u].links = links]
  /\ UNCHANGED << openPages, productFailed, digestFile >>
  /\ MediaFrame

\* the four ensureDir calls, the report, the screenshot: each finishes
WriteStep(u) ==
  /\ AtStep(u, {"ensureDir", "writeFile", "screenshot"})
  /\ productTasks' = [productTasks EXCEPT ![u].step = NextStep(@)]
  /\ stepLog' = [stepLog EXCEPT ![u].done = Append(@, productTasks[u].step)]
  /\ UNCHANGED << openPages, productFailed, digestFile >>
  /\ MediaFrame

\* await utils.appendToFile(this.allContentPath, allContentEntry)
AppendDigest(u) ==
  /\ AtStep(u, {"appendToFile"})
  /\ digestFile' = digestFile \o Block(u)
  /\ productTasks' = [productTasks EXCEPT ![u].step = NextStep(@)]
  /\ stepLog' = [stepLog EXCEPT ![u].done = Append(@, "appendToFile")]
  /\ UNCHANGED << openPages, productFailed >>
  /\ MediaFrame

\* downloadFile: what the promise it returns does.  A request error is
\* thrown by the awaited axios call inside the try, caught and logged, and
\* the promise resolves.  The write stream's promise is returned, not
\* awaited, so its rejection is outside the try and rejects the promise.
DownloadOutcomes == { "ok", "request", "write" }

DownloadFile(outcome) ==
  CASE outcome = "ok" -> "resolved"
    [] outcome = "request" -> "resolved"
    [] outcome = "write" -> "rejected"

\* the catch of processProductPage: the call ends, the page is not closed
Caught(u, step) ==
  /\ stepLog' = [stepLog EXCEPT ![u].thrownAt = step, ![u].ended = "caught"]
  /\ productTasks' = Without(productTasks, u)
  /\ productFailed' = productFailed \cup {u}
  /\ UNCHANGED << openPages, digestFile >>

\* one iteration of a download loop
Download(u) ==
  /\ AtStep(u, {"images", "videos", "pdfs"})
  /\ LET t == productTasks[u] IN
     /\ t.i < t.links[t.step]
     /\ \E outcome \in DownloadOutcomes :
          IF DownloadFile(outcome) = "resolved"
          THEN /\ stepLog' = [stepLog EXCEPT ![u].attempts =
                                Append(@, [kind |-> t.step, outcome |-> outcome])]
               /\ productTasks' = [productTasks EXCEPT ![u].i = @ + 1]
               /\ UNCHANGED << openPages, productFailed, digestFile >>
          ELSE /\ stepLog' = [stepLog EXCEPT ![u].attempts =
                                Append(@, [kind |-> t.step, outcome |-> outcome]),
                                             ![u].thrownAt = t.step,
                                             ![u].ended = "caught"]
               /\ productTasks' = Without(productTasks, u)
               /\ productFailed' = productFailed \cup {u}
               /\ UNCHANGED << openPages, digestFile >>
  /\ MediaFrame

\* i < links.length is false: the loop is left
LoopDone(u) ==
  /\ AtStep(u, {"images", "videos", "pdfs"})
  /\ LET t == productTasks[u] IN
     /\ t.i = t.links[t.step]
     /\ productTasks' = [productTasks EXCEPT ![u].step = NextStep(@), ![u].i = 0]
     /\ stepLog' = [stepLog EXCEPT ![u].done = Append(@, t.step)]
  /\ UNCHANGED << openPages, productFailed, digestFile >>
  /\ MediaFrame

\* await page.close(), then the call returns
CloseProductPage(u) ==
  /\ AtStep(u, {"close"})
  /\ openPages' = openPages - 1
  /\ productTasks' = Without(productTasks, u)
  /\ stepLog' = [stepLog EXCEPT ![u].ended = "returned"]
  /\ UNCHANGED << productFailed, digestFile >>
  /\ MediaFrame

\* an awaited call other than downloadFile throws
StepThrows(u) ==
  /\ AtStep(u, {"newPage", "goto", "ensureDir", "writeFile", "appendToFile",
                "screenshot", "close"})
  /\ Caught(u, productTasks[u].step)
  /\ MediaFrame

MediaNext ==
  \/ \E u \in MediaUrls : OpenProductPage(u)
  \/ \E u \in MediaUrls : FetchProduct(u)
  \/ \E u \in MediaUrls : WriteStep(u)
  \/ \E u \in MediaUrls : AppendDigest(u)
  \/ \E u \in MediaUrls : Download(u)
  \/ \E u \in MediaUrls : LoopDone(u)
  \/ \E u \in MediaUrls : CloseProductPage(u)
  \/ \E u \in MediaUrls : StepThrows(u)

SpecMedia == MediaInit /\ [][MediaNext]_vars

(***************************************************************************)
(* utils.determineCategory.  Here a string is the sequence of its          *)
(* characters and a URL is what url.split('/') gives, a sequence of such   *)
(* strings: "https://store.ui.com/us/" is the parts "https:", "",          *)
(* "store.ui.com", "us", "".  SpecCategory applies the function to a       *)
(* bounded set of arguments.                                               *)
(***************************************************************************)
MaxParts == 4
MaxSlug == 3
MaxWords == 3

LowerCase ==
  << "a", "b", "c", "d", "e", "f", "g", "h", "i", "j", "k", "l", "m",
     "n", "o", "p", "q", "r", "s", "t", "u", "v", "w", "x", "y", "z" >>

UpperCase ==
  << "A", "B", "C", "D", "E", "F", "G", "H", "I", "J", "K", "L", "M",
     "N", "O", "P", "Q", "R", "S", "T", "U", "V", "W", "X", "Y", "Z" >>

Chars ==
  SeqToSet(LowerCase) \cup SeqToSet(UpperCase)
    \cup { " ", "-", "_", "/", ".", ":", "?", "#", "=" }

\* String.prototype.toUpperCase and toLowerCase, one character at a time
UpperOf ==
  [c \in Chars |->
     IF InSeq(c, LowerCase) THEN UpperCase[IndexOf(LowerCase, c)] ELSE c]

LowerOf ==
  [c \in Chars |->
     IF InSeq(c, UpperCase) THEN LowerCase[IndexOf(UpperCase, c)] ELSE c]

ToUpperCase(s) == [i \in 1..Len(s) |-> UpperOf[s[i]]]

ToLowerCase_AsIs(s) == s

ToLowerCase(s) == [i \in 1..Len(s) |-> LowerOf[s[i]]]

\* s.includes(t) on strings
IncludesStr(s, t) ==
  \E i \in 0..(Len(s) - Len(t)) : SubSeq(s, i + 1, i + Len(t)) = t

\* s.split(sep) for a one-character separator
RECURSIVE Split(_, _)
Split(s, sep) ==
  IF \A i \in 1..Len(s) : s[i] # sep THEN << s >>
  ELSE LET i == CHOOSE k \in 1..Len(s) :
                  s[k] = sep /\ \A j \in 1..(k - 1) : s[j] # sep
       IN << SubSeq(s, 1, i - 1) >> \o Split(SubSeq(s, i + 1, Len(s)), sep)

\* words.join(sep)
RECURSIVE Join(_, _)
Join(words, sep) ==
  IF Len(words) = 0 THEN <<>>
  ELSE IF Len(words) = 1 THEN words[1]
  ELSE words[1] \o << sep >> \o Join(Tail(words), sep)

Capitalize_AsIs(word) == word

\* word.charAt(0).toUpperCase() + word.slice(1)
Capitalize(word) ==
  IF word = <<>> THEN <<>>
  ELSE ToUpperCase(<< word[1] >>) \o SubSeq(word, 2, Len(word))

\* urlCategory.split('-').map(...).join(' ')
TitleCase(urlCategory) ==
  LET words == Split(urlCategory, "-")
  IN Join([i \in 1..Len(words) |-> Capitalize(words[i])], " ")

Collections == << "c", "o", "l", "l", "e", "c", "t", "i", "o", "n", "s" >>

Other == << "O", "t", "h", "e", "r" >>

\* config.categories
categories ==
  << << "N", "e", "t", "w", "o", "r", "k", "s" >>,
     << "P", "r", "o", "t", "e", "c", "t" >>,
     << "A", "c", "c", "e", "s", "s" >>,
     << "T", "a", "l", "k" >>,
     << "C", "o", "n", "n", "e", "c", "t" >>,
     << "C", "a", "m", "e", "r", "a", "s" >>,
     << "D", "o", "o", "r", " ", "A", "c", "c", "e", "s", "s" >>,
     << "A", "c", "c", "e", "s", "s", "o", "r", "i", "e", "s" >>,
     << "S", "e", "n", "s", "o", "r", "s" >>,
     << "A", "n", "t", "e", "n", "n", "a", "s" >> >>

\* urlParts.indexOf(x), 0 standing for -1 and positions counted from 1
FirstIndexOf(parts, x) ==
  IF InSeq(x, parts)
  THEN CHOOSE i \in 1..Len(parts) :
         parts[i] = x /\ \A j \in 1..(i - 1) : parts[j] # x
  ELSE 0

\* the for loop over categories
RECURSIVE MatchByName(_, _)
MatchByName(productName, cats) ==
  IF cats = <<>> THEN Other
  ELSE IF IncludesStr(ToLowerCase(productName), ToLowerCase(Head(cats)))
       THEN Head(cats)
  ELSE MatchByName(productName, Tail(cats))

determineCategory(productName, url, cats) ==
  LET urlParts == url
      collectionIndex == FirstIndexOf(urlParts, Collections)
  IN IF /\ collectionIndex # 0
        /\ collectionIndex + 1 <= Len(urlParts)
        /\ urlParts[collectionIndex + 1] # <<>>
     THEN TitleCase(urlParts[collectionIndex + 1])
     ELSE MatchByName(productName, cats)

\* the parts every URL of the store starts with: https://store.ui.com/us
StorePrefix ==
  << << "h", "t", "t", "p", "s", ":" >>, <<>>,
     << "s", "t", "o", "r", "e", ".", "u", "i", ".", "c", "o", "m" >>,
     << "u", "s" >> >>

Reverse(s) == [i \in 1..Len(s) |-> s[Len(s) + 1 - i]]

\* the words product names are made of
NameWords ==
  { << "D", "o", "o", "r", " " >>, << "a", "c", "c", "e", "s", "s" >>,
    << "o", "r", "i", "e", "s" >>, << "C", "A", "M", "E", "R", "A", "S" >>,
    << "H", "u", "b" >> }

RECURSIVE Concat(_)
Concat(ws) == IF ws = <<>> THEN <<>> ELSE Head(ws) \o Concat(Tail(ws))

ProductNames == { Concat(ws) : ws \in SeqsUpTo(NameWords, MaxWords) }

\* the segments a collection URL can carry after /collections/
Slugs == SeqsUpTo({ "a", "B", "-" }, MaxSlug) \ { <<>> }

\* the paths below the store prefix: every arrangement of collections
\* segments, empty segments and one slug
PathsOf(slug) == SeqsUpTo({ Collections, <<>>, slug }, MaxParts)

CollectionArgs ==
  { [productName |-> n, url |-> StorePrefix \o p, categories |-> c] :
      n \in { << "H", "u", "b" >>, << "a", "c", "c", "e", "s", "s" >> },
      p \in UNION { PathsOf(slug) : slug \in Slugs },
      c \in { categories, <<>> } }

NameArgs ==
  { [productName |-> n, url |-> StorePrefix \o p, categories |-> c] :
      n \in ProductNames,
      p \in { <<>>, << Collections >>, << Collections, <<>> >> },
      c \in { categories, Reverse(categories) } }

CategoryInit ==
  /\ Constructed
  /\ stepLog = NoValue
  /\ digestFile = <<>>
  /\ outDir = NoValue
  /\ \E a \in CollectionArgs \cup NameArgs : arg = << a >>
  /\ result = Unset

ApplyDetermineCategory ==
  /\ result = Unset
  /\ result' = << determineCategory(arg[1].productName, arg[1].url, arg[1].categories) >>
  /\ UNCHANGED << progVars, histVars, stepLog, digestFile, outDir, arg >>

CategoryNext == ApplyDetermineCategory

SpecCategory == CategoryInit /\ [][CategoryNext]_vars

(***************************************************************************)
(* Two product calls side by side.  config.crawlSettings.concurrency is 5, *)
(* so the limiter starts the calls for two product URLs at once; SpecDigest *)
(* starts there and follows both to their return, with the product         *)
(* directory and the append to all_content.txt in detail.                  *)
(***************************************************************************)
ProdZ == << "store.ui.com", "us", "products", "z" >>

DigestUrls == { ProdX, ProdZ }

\* the segments of the product URLs as strings of characters
PartChars ==
  [p \in { "store.ui.com", "us", "products", "x", "z" } |->
     CASE p = "store.ui.com" -> StorePrefix[3]
       [] p = "us" -> StorePrefix[4]
       [] p = "products" -> << "p", "r", "o", "d", "u", "c", "t", "s" >>
       [] p = "x" -> << "x" >>
       [] p = "z" -> << "z" >>]

\* url.split('/') of "https://" followed by the URL's parts
SplitUrl(u) ==
  SubSeq(StorePrefix, 1, 2) \o [i \in 1..Len(u) |-> PartChars[u[i]]]

\* name.trim()
RECURSIVE Trim(_)
Trim(s) ==
  IF s = <<>> THEN s
  ELSE IF s[1] = " " THEN Trim(Tail(s))
  ELSE IF s[Len(s)] = " " THEN Trim(SubSeq(s, 1, Len(s) - 1))
  ELSE s

RECURSIVE DropTrailing(_, _)
DropTrailing(s, cs) ==
  IF s # <<>> /\ s[Len(s)] \in cs THEN DropTrailing(SubSeq(s, 1, Len(s) - 1), cs)
  ELSE s

\* sanitize(): the characters illegal in a file name are removed, then the
\* trailing dots and spaces
Sanitize(s) ==
  DropTrailing(SelectSeq(s, LAMBDA c : c \notin { "/", "?", ":", "\\" }),
               { ".", " " })

\* replace(/\\s+/g, '_'): the pattern is a backslash followed by one or
\* more letters s
RECURSIVE ReplaceBackslashS(_)
ReplaceBackslashS(s) ==
  IF s = <<>> THEN s
  ELSE IF s[1] = "\\" /\ Len(s) >= 2 /\ s[2] = "s"
       THEN LET k == CHOOSE n \in 2..Len(s) :
                       /\ \A j \in 2..n : s[j] = "s"
                       /\ n = Len(s) \/ s[n + 1] # "s"
            IN << "_" >> \o ReplaceBackslashS(SubSeq(s, k + 1, Len(s)))
  ELSE << s[1] >> \o ReplaceBackslashS(Tail(s))

sanitizeName(name) == ReplaceBackslashS(Sanitize(Trim(name)))

\* productDir below config.outputDir/products
ProductDir(name, u) ==
  << sanitizeName(determineCategory(name, SplitUrl(u), categories)),
     sanitizeName(name) >>

\* product.name as ProductParser reads it from the page
PageNames ==
  { << "H", "u", "b" >>, << " ", "H", "u", "b" >>,
    << "T", "a", "l", "k", " ", "X" >> }

WriteCalls_EntryThenSuffix(u) == << << Block(u)[1] >>, << Block(u)[2] >> >>

\* the fs.appendFile calls of one appendToFile call, each with its text
WriteCalls(u) == << Block(u) >>

DigestInit ==
  /\ pc = "phase2"
  /\ browser = "open"
  /\ visitedUrls = {baseUrl}
  /\ productUrls = << ProdX, ProdZ >>
  /\ urlsToVisit = <<>>
  /\ pageCount = 1
  /\ awaited = <<>>
  /\ pageTasks = NoTasks
  /\ openPages = 0
  /\ limitQueue = <<>>
  /\ productTasks = [u \in DigestUrls |-> [step |-> "goto", w |-> 1]]
  /\ fetchLog = << baseUrl >>
  /\ productLog = << ProdX, ProdZ >>
  /\ iterations = 1
  /\ delays = 1
  /\ crawlFailed = {}
  /\ productFailed = {}
  /\ rediscovered = FALSE
  /\ stepLog = [u \in DigestUrls |-> NoSteps]
  /\ digestFile = <<>>
  /\ outDir = [u \in DigestUrls |-> NoValue]
  /\ arg = Unset
  /\ result = Unset

DigestFrame ==
  UNCHANGED << pc, browser, visitedUrls, productUrls, urlsToVisit, pageCount,
               awaited, pageTasks, limitQueue, fetchLog, productLog,
               iterations, delays, crawlFailed, rediscovered, arg, result >>

\* newPage, goto, content, extractProductInfo, determineCategory and the
\* two sanitizeName calls: the product directory is known
ReadProduct(u) ==
  /\ AtStep(u, {"goto"})
  /\ \E name \in PageNames : outDir' = [outDir EXCEPT ![u] = ProductDir(name, u)]
  /\ productTasks' = [productTasks EXCEPT ![u].step = "ensureDir"]
  /\ stepLog' = [stepLog EXCEPT ![u].done = Append(@, "goto")]
  /\ openPages' = openPages + 1
  /\ UNCHANGED << productFailed, digestFile >>
  /\ DigestFrame

\* the four ensureDir calls and the writeFile of product_info.md
WriteReport(u) ==
  /\ AtStep(u, {"ensureDir"})
  /\ productTasks' = [productTasks EXCEPT ![u].step = "ensureFile"]
  /\ stepLog' = [stepLog EXCEPT ![u].done = @ \o << "ensureDir", "writeFile" >>]
  /\ UNCHANGED << openPages, productFailed, digestFile, outDir >>
  /\ DigestFrame

\* appendToFile: await fs.ensureFile(filePath)
EnsureFile(u) ==
  /\ AtStep(u, {"ensureFile"})
  /\ productTasks' = [productTasks EXCEPT ![u].step = "appendFile"]
  /\ UNCHANGED << openPages, productFailed, digestFile, outDir, stepLog >>
  /\ DigestFrame

\* appendToFile: await fs.appendFile(filePath, text + '\\n', 'utf8'); one
\* appendFile call puts its text at the end of the file in one piece
AppendFile(u) ==
  /\ AtStep(u, {"appendFile"})
  /\ LET t == productTasks[u] IN
     /\ digestFile' = digestFile \o WriteCalls(u)[t.w]
     /\ IF t.w < Len(WriteCalls(u))
        THEN /\ productTasks' = [productTasks EXCEPT ![u].w = @ + 1]
             /\ UNCHANGED stepLog
        ELSE /\ productTasks' = [productTasks EXCEPT ![u].step = "screenshot"]
             /\ stepLog' = [stepLog EXCEPT ![u].done = Append(@, "appendToFile")]
  /\ UNCHANGED << openPages, productFailed, outDir >>
  /\ DigestFrame

\* the screenshot, the downloads and page.close(); the call returns
FinishProduct(u) ==
  /\ AtStep(u, {"screenshot"})
  /\ productTasks' = Without(productTasks, u)
  /\ stepLog' = [stepLog EXCEPT ![u].ended = "returned"]
  /\ openPages' = openPages - 1
  /\ UNCHANGED << productFailed, digestFile, outDir >>
  /\ DigestFrame

\* an awaited call throws and processProductPage's catch ends the call
ProductThrows(u) ==
  /\ AtStep(u, {"goto", "ensureDir", "ensureFile", "appendFile", "screenshot"})
  /\ Caught(u, productTasks[u].step)
  /\ UNCHANGED outDir
  /\ DigestFrame

DigestNext ==
  \/ \E u \in DigestUrls : ReadProduct(u)
  \/ \E u \in DigestUrls : WriteReport(u)
  \/ \E u \in DigestUrls : EnsureFile(u)
  \/ \E u \in DigestUrls : AppendFile(u)
  \/ \E u \in DigestUrls : FinishProduct(u)
  \/ \E u \in DigestUrls : ProductThrows(u)

SpecDigest == DigestInit /\ [][DigestNext]_vars

(***************************************************************************)
(* utils.extractLinks.  The html is the sequence of href and src values    *)
(* the regular expression finds, in document order.  A value is written as *)
(* its pieces origin, path, ext and query, the string being their          *)
(* concatenation: [origin |-> "", path |-> "/a", ext |-> ".PNG",           *)
(* query |-> "?v=1"] is "/a.PNG?v=1".  SpecLinks applies the function to   *)
(* every html of up to MaxRefs values.                                     *)
(***************************************************************************)
MaxRefs == 2

RawRefs ==
  [origin : { "", "https://store.ui.com", "https://[" },
   path : { "", "/a" },
   ext : { "", ".png", ".PNG" },
   query : { "", "?v=1", "?f=b.png" }]
    \ { [origin |-> "", path |-> "", ext |-> "", query |-> ""] }

\* toLowerCase() on the extension pieces
LowerExt(e) == IF e = ".PNG" THEN ".png" ELSE e

\* fileExtensions.some(ext => url.toLowerCase().endsWith(ext)): the string
\* ends with its query if it has one, else with its ext piece
HasMatchingExtension(ref, fileExtensions) ==
  LET ending == CASE ref.query = "?f=b.png" -> ".png"
                  [] ref.query = "?v=1" -> ""
                  [] OTHER -> LowerExt(ref.ext)
  IN InSeq(ending, fileExtensions)

\* the page the links are resolved against, https://store.ui.com/us/products/x
PageBase == [host |-> "https://store.ui.com", dir |-> "/us/products/", file |-> "x"]

\* new URL(url, baseUrl).href as host, path (stem and extension) and query,
\* or "invalid" when the constructor throws.  Without a path an absolute
\* value's ext piece belongs to the host and the path is "/".
Resolve(ref, base) ==
  CASE ref.origin = "https://[" -> [valid |-> FALSE]
    [] ref.origin = "https://store.ui.com" ->
         IF ref.path = ""
         THEN [valid |-> TRUE, host |-> << ref.origin, LowerExt(ref.ext) >>,
               path |-> << "/", "" >>, query |-> ref.query]
         ELSE [valid |-> TRUE, host |-> << ref.origin, "" >>,
               path |-> << ref.path, ref.ext >>, query |-> ref.query]
    [] OTHER ->
         [valid |-> TRUE, host |-> << base.host, "" >>,
          path |-> IF ref.path # "" THEN << ref.path, ref.ext >>
                   ELSE IF ref.ext # "" THEN << base.dir, ref.ext >>
                   ELSE << base.dir \o base.file, "" >>,
          query |-> ref.query]

\* the while loop over the matches, then [...new Set(links)]
RECURSIVE extractLinks(_, _, _)
extractLinks(html, fileExtensions, base) ==
  IF html = <<>> THEN <<>>
  ELSE LET ref == html[Len(html)]
           links == extractLinks(SubSeq(html, 1, Len(html) - 1), fileExtensions, base)
       IN IF HasMatchingExtension(ref, fileExtensions) /\ Resolve(ref, base).valid
          THEN SetAdd(links, Resolve(ref, base))
          ELSE links

LinksInit ==
  /\ Constructed
  /\ stepLog = NoValue
  /\ digestFile = <<>>
  /\ outDir = NoValue
  /\ \E html \in SeqsUpTo(RawRefs, MaxRefs) :
       arg = << [html |-> html, fileExtensions |-> << ".png" >>, baseUrl |-> PageBase] >>
  /\ result = Unset

ApplyExtractLinks ==
  /\ result = Unset
  /\ result' = << extractLinks(arg[1].html, arg[1].fileExtensions, arg[1].baseUrl) >>
  /\ UNCHANGED << progVars, histVars, stepLog, digestFile, outDir, arg >>

LinksNext == ApplyExtractLinks

SpecLinks == LinksInit /\ [][LinksNext]_vars

(***************************************************************************)
(* ProductParser.extractProductSpecifications.  The page is its tables in  *)
(* document order, each with the selector of specSelectors it matches and  *)
(* its rows of cell texts, and its dl lists with their dt and dd texts.    *)
(* SpecSpecs applies the function to a main table of up to MaxRows rows,   *)
(* an optional further one-row table and an optional list.                 *)
(***************************************************************************)
MaxRows == 3

specSelectors ==
  << ".product-specifications table", ".specifications table",
     ".product-specs table", ".specs-table", "table.specifications" >>

\* text().trim() on the cell texts
TrimText(t) == IF t = " " THEN "" ELSE t

MainRows ==
  { << "Key1", "Val1" >>, << "", "" >>, << "Key2", "Val2" >>,
    << "Key1", "Val2", "x" >>, << "Key2" >> }

FurtherRows == { << " ", "Val1" >>, << "Key2", "Val1" >> }

SpecPages ==
  [main : [sel : 1..Len(specSelectors), rows : SeqsUpTo(MainRows, MaxRows)],
   further : SeqsUpTo([sel : 1..Len(specSelectors), rows : SeqsUpTo(FurtherRows, 1) \ { <<>> }], 1),
   lists : SeqsUpTo({ [terms |-> << "Key2", "Key1" >>, defs |-> << "Val1" >>] }, 1)]

\* $(selector).find('tr'): the rows of every table the selector matches
RowsOf(page, k) ==
  LET tables == << page.main >> \o page.further
      matched == SelectSeq(tables, LAMBDA t : t.sel = k)
  IN IF Len(matched) = 0 THEN <<>>
     ELSE IF Len(matched) = 1 THEN matched[1].rows
     ELSE matched[1].rows \o matched[2].rows

\* the rows of a dl: each dt with the dd at the same position, if any
PairsOf(list) ==
  [j \in 1..Len(list.terms) |->
     << list.terms[j], IF j <= Len(list.defs) THEN list.defs[j] ELSE "" >>]

\* one row: if ($cells.length >= 2) ... if (key && value) specs[key] = value
RECURSIVE AddRows(_, _)
AddRows(specs, rows) ==
  IF rows = <<>> THEN specs
  ELSE LET row == Head(rows)
           key == TrimText(row[1])
           value == TrimText(row[2])
       IN AddRows(IF Len(row) >= 2 /\ key # "" /\ value # ""
                  THEN (key :> value) @@ specs ELSE specs,
                  Tail(rows))

FoundSpecs_Never(specs) == FALSE

\* Object.keys(specs).length > 0
FoundSpecs(specs) == DOMAIN specs # {}

\* the loop over specSelectors from the k-th on, then the dl lists
RECURSIVE TrySelectors(_, _, _)
TrySelectors(page, k, specs) ==
  IF k > Len(specSelectors)
  THEN IF page.lists = <<>> THEN specs
       ELSE AddRows(specs, PairsOf(page.lists[1]))
  ELSE LET found == AddRows(specs, RowsOf(page, k))
       IN IF FoundSpecs(found) THEN found
          ELSE TrySelectors(page, k + 1, found)

extractProductSpecifications(page) == TrySelectors(page, 1, <<>>)

SpecsInit ==
  /\ Constructed
  /\ stepLog = NoValue
  /\ digestFile = <<>>
  /\ outDir = NoValue
  /\ \E page \in SpecPages : arg = << page >>
  /\ result = Unset

ApplyExtractSpecifications ==
  /\ result = Unset
  /\ result' = << extractProductSpecifications(arg[1]) >>
  /\ UNCHANGED << progVars, histVars, stepLog, digestFile, outDir, arg >>

SpecsNext == ApplyExtractSpecifications

SpecSpecs == SpecsInit /\ [][SpecsNext]_vars

(***************************************************************************)
(* Properties                                                              *)
(***************************************************************************)
CrawlPhase == pc \in {"new", "ready", "loop", "await", "delay"}
LoopLeft == pc \in {"phase2", "closing", "done"}
Closing(t) == pageTasks[t].step = "close"

\* C1: no URL is passed to processPage twice in a run, a failed one included.
C1_NoRepeatedFetch == NoRepeats(fetchLog)

\* a third page was fetched whose links led back to a page that had failed
C1_Witness ==
  /\ Len(fetchLog) = 3
  /\ \E t \in InFlight(pageTasks) : Closing(t) /\ "failed" \in pageTasks[t].took

\* C2: processProductPage is called at most once per URL and only for URLs of
\* productUrls; once Promise.all has resolved it was called for each of them.
C2_ProductOnce ==
  /\ NoRepeats(productLog)
  /\ SeqToSet(productLog) \subseteq SeqToSet(productUrls)
  /\ pc \in {"closing", "done"} => SeqToSet(productLog) = SeqToSet(productUrls)

\* a product link met again during the crawl, and the run completed
C2_Witness == pc = "done" /\ rediscovered /\ Len(productLog) = 2

\* C3: never more than Concurrency calls of processProductPage in flight.
C3_BoundedInFlight == Cardinality(InFlight(productTasks)) <= Concurrency

\* the limit is reached while a call still waits
C3_Witness ==
  /\ Cardinality(InFlight(productTasks)) = Concurrency
  /\ limitQueue # <<>>

\* C4: no processProductPage call before the crawl loop is left, and at most
\* one processPage call in flight.
C4_Phases ==
  /\ CrawlPhase => productLog = <<>> /\ InFlight(productTasks) = {}
  /\ Cardinality(InFlight(pageTasks)) <= 1
  /\ InFlight(productTasks) # {} => InFlight(pageTasks) = {}

\* a second page is being fetched while product URLs are already known
C4_Witness ==
  /\ pc = "await"
  /\ Len(fetchLog) = 2
  /\ InFlight(pageTasks) # {}
  /\ productUrls # <<>>

\* C5: at most MaxPages calls of processPage, failed ones counted; the loop
\* is left only with the frontier empty or the count at the cap.
C5_PageCap ==
  /\ Len(fetchLog) <= MaxPages
  /\ pageCount <= MaxPages
  /\ pc = "await" => pageCount < MaxPages /\ Len(fetchLog) = pageCount + 1
  /\ pc \in {"loop", "delay"} \/ LoopLeft => Len(fetchLog) = pageCount
  /\ LoopLeft => urlsToVisit = <<>> \/ pageCount = MaxPages

\* the cap ends the loop with URLs left over, failed pages among the counted
C5_Witness ==
  /\ pc = "phase2"
  /\ urlsToVisit # <<>>
  /\ pageCount = MaxPages
  /\ crawlFailed # {}

\* what one pass of the link loop makes of a link in the current state
LinkStep(link) ==
  ProcessLink([productUrls |-> productUrls, urlsToVisit |-> urlsToVisit,
               again |-> rediscovered, took |-> {}], link)

\* C6: a link with the product marker that is internal and not excluded goes
\* to productUrls and not to the frontier, include pattern or not; no URL
\* with the marker is queued, visited or fetched as a crawl page.
C6_ProductTerminal ==
  /\ \A link \in Urls :
       (IsProductLink(link) /\ StartsWith(link, baseUrl) /\ ~IsExcluded(link))
         => /\ InSeq(link, LinkStep(link).productUrls)
            /\ LinkStep(link).urlsToVisit = urlsToVisit
  /\ \A u \in SeqToSet(urlsToVisit) \cup visitedUrls \cup SeqToSet(fetchLog) :
       ~IsProductLink(u)

\* a product URL that matches an include pattern was processed as a product
\* after a crawl of several pages
C6_Witness ==
  /\ pc = "done"
  /\ Len(fetchLog) >= 2
  /\ \E i \in 1..Len(productLog) : MatchesInclude(productLog[i])

\* C7: every URL in productUrls, in the frontier or visited starts with the
\* base URL and contains no exclude pattern.
C7_InternalOnly ==
  \A u \in SeqToSet(productUrls) \cup SeqToSet(urlsToVisit) \cup visitedUrls :
    StartsWith(u, baseUrl) /\ ~IsExcluded(u)

\* a page carried an external and an excluded link; both were dropped
C7_Witness ==
  /\ productUrls # <<>>
  /\ \E t \in InFlight(pageTasks) :
       Closing(t) /\ {"external", "excluded"} \subseteq pageTasks[t].took

\* C8: what link processing appends to the frontier matches an include
\* pattern and was neither visited nor queued when appended.
C8_AppendGuarded ==
  [][ (pc # "ready" /\ Len(urlsToVisit') >= Len(urlsToVisit)
                    /\ urlsToVisit' # urlsToVisit)
      => LET n == Len(urlsToVisit)
             added == SubSeq(urlsToVisit', n + 1, Len(urlsToVisit'))
         IN /\ SubSeq(urlsToVisit', 1, n) = urlsToVisit
            /\ NoRepeats(added)
            /\ \A i \in 1..Len(added) :
                 /\ MatchesInclude(added[i])
                 /\ added[i] \notin visitedUrls
                 /\ ~InSeq(added[i], urlsToVisit) ]_vars

\* a page linked to a visited URL and to a queued one; neither was appended
C8_Witness ==
  /\ urlsToVisit # <<>>
  /\ \E t \in InFlight(pageTasks) :
       Closing(t) /\ {"visited", "queued"} \subseteq pageTasks[t].took

\* C9: every iteration of the crawl loop ends with the delay, so the k-th
\* call of processPage comes after k - 1 delays.
C9_DelayEachIteration ==
  /\ pc = "loop" \/ LoopLeft => delays = iterations
  /\ pc \in {"await", "delay"} => delays = iterations - 1
  /\ pc = "await" => delays = Len(fetchLog) - 1

\* three pages were fetched, some failed and some not, each with its delay
C9_Witness ==
  /\ pc = "loop"
  /\ delays = 3
  /\ crawlFailed # {}
  /\ crawlFailed # SeqToSet(fetchLog)

\* C10: an error in processPage or processProductPage ends neither the crawl
\* loop nor start(): the run exits only when init() fails, some step is
\* enabled in every state short of the end, the loop is left only at its own
\* condition and every product URL is processed.
C10_Isolated ==
  /\ pc = "exit" => browser = "none" /\ fetchLog = <<>>
  /\ pc \notin {"done", "exit"} => ENABLED Next
  /\ pc = "done" =>
       /\ urlsToVisit = <<>> \/ pageCount = MaxPages
       /\ SeqToSet(productLog) = SeqToSet(productUrls)
       /\ InFlight(productTasks) = {} /\ limitQueue = <<>>

\* a page was fetched after a failed one, a product processed after a failed
\* one, and the run completed
C10_Witness ==
  /\ pc = "done"
  /\ \E i \in 1..Len(fetchLog) : i < Len(fetchLog) /\ fetchLog[i] \in crawlFailed
  /\ Len(productLog) = 2
  /\ productLog[1] \in productFailed

NothingPending ==
  /\ limitQueue = <<>>
  /\ DOMAIN productTasks = {}
  /\ DOMAIN pageTasks = {}

\* C12: browser.close() runs (pc = "closing") only when no product call is
\* queued in the limiter or in flight, and once the browser is closed no
\* call is queued or in flight and no step of the program, so no page
\* fetch, can happen any more.
C12_CloseLast ==
  /\ pc = "closing" => NothingPending
  /\ browser = "closed" => NothingPending /\ ~ENABLED Next

\* the browser was closed after two crawl pages and two product pages
C12_Witness ==
  /\ browser = "closed"
  /\ Len(fetchLog) = 2
  /\ Len(productLog) = 2

FetchOrder == fetchLog \o urlsToVisit

\* C19: the crawl pages fetched so far followed by the URLs waiting in the
\* frontier form one sequence that starts with the seed and only ever grows
\* at its end: a URL is fetched when it reaches the front, so pages are
\* fetched in the order in which their URLs were appended.
C19_Fifo ==
  /\ [](FetchOrder # <<>> => FetchOrder[1] = baseUrl)
  /\ [][ /\ Len(FetchOrder) <= Len(fetchLog' \o urlsToVisit')
         /\ SubSeq(fetchLog' \o urlsToVisit', 1, Len(FetchOrder)) = FetchOrder ]_vars

\* CollC was found on CollA's page before CollB was fetched, and waits
\* behind CollB, which the seed page had named after CollA
C19_Witness ==
  /\ fetchLog = << baseUrl, CollA, CollB >>
  /\ urlsToVisit = << CollC >>

\* C22: while the crawl loop runs the frontier holds no URL twice and no
\* visited URL, every shift() so far was followed by a fetch (the branch
\* that skips a visited URL was never taken), and at the loop-iteration
\* boundaries pageCount is the size of visitedUrls.
C22_FrontierFresh ==
  CrawlPhase =>
    /\ NoRepeats(urlsToVisit)
    /\ \A i \in 1..Len(urlsToVisit) : urlsToVisit[i] \notin visitedUrls
    /\ iterations = Len(fetchLog)
    /\ pc = "loop" => pageCount = Cardinality(visitedUrls)

\* two pages were fetched, one of them failed, and two URLs are waiting
C22_Witness ==
  /\ pc = "loop"
  /\ pageCount = 2
  /\ crawlFailed # {}
  /\ Len(urlsToVisit) = 2

HoldsPage(f) == { u \in DOMAIN f : f[u].step # "newPage" }

\* C23: the number of open pages is the number of calls in flight that
\* have opened their page, so a returned call has left none open; at most
\* one page is open while the crawl loop runs, at most Concurrency in
\* phase 2, and none when browser.close() runs.
C23_PagesClosed ==
  /\ openPages = Cardinality(HoldsPage(pageTasks))
                   + Cardinality({ u \in DOMAIN productTasks : productTasks[u] # "newPage" })
  /\ CrawlPhase => openPages <= 1
  /\ pc = "phase2" => openPages <= Concurrency
  /\ pc \in {"closing", "done"} => openPages = 0

Failed(a) == a.outcome # "ok"

TotalLinks(u) ==
  stepLog[u].links["images"] + stepLog[u].links["videos"] + stepLog[u].links["pdfs"]

\* C11: whenever a product call has ended and one of its downloads failed
\* (the request or the write of the local file), and nothing but downloads
\* went wrong, every image, video and PDF link of the page was attempted
\* and the call returned normally.
C11_SkipOnlyThatDownload ==
  \A u \in MediaUrls :
    ( /\ stepLog[u].ended # "no"
      /\ \E n \in 1..Len(stepLog[u].attempts) : Failed(stepLog[u].attempts[n])
      /\ stepLog[u].thrownAt \notin {"close"} )
    => ( /\ stepLog[u].ended = "returned"
         /\ Len(stepLog[u].attempts) = TotalLinks(u) )

IsPrefix(s, t) == Len(s) <= Len(t) /\ SubSeq(t, 1, Len(s)) = s

StepsBefore(step) ==
  CASE step = "newPage" -> <<>>
    [] step = "close" -> StepOrder
    [] OTHER -> SubSeq(StepOrder, 1, IndexOf(StepOrder, step) - 1)

Wrote(u) == \E n \in 1..Len(digestFile) : digestFile[n].url = u

FetchFailed(u) == stepLog[u].thrownAt \in {"newPage", "goto"}

NothingProduced(u) ==
  /\ stepLog[u].done = <<>>
  /\ stepLog[u].attempts = <<>>
  /\ ~Wrote(u)

\* the claim of C20 as worded, a failed download being a failure at its
\* step: the finished steps are a prefix of the order, after a failure at a
\* step nothing later is done or attempted, and a product whose page fetch
\* failed has produced nothing.
C20_AnyFailureAbandons ==
  \A u \in MediaUrls :
    /\ IsPrefix(stepLog[u].done, StepOrder)
    /\ stepLog[u].thrownAt # NoValue
         => stepLog[u].done = StepsBefore(stepLog[u].thrownAt)
    /\ \A n \in 1..Len(stepLog[u].attempts) :
         Failed(stepLog[u].attempts[n])
           => /\ n = Len(stepLog[u].attempts)
              /\ \A m \in 1..Len(stepLog[u].done) :
                   stepLog[u].done[m] # stepLog[u].attempts[n].kind
    /\ FetchFailed(u) => NothingProduced(u)

\* C20: the steps a product call has finished are always a prefix of the
\* order goto, ensureDir, writeFile, appendToFile, screenshot, images,
\* videos, pdfs; once an error was thrown at a step the finished steps are
\* exactly the steps before it, the call has ended and the throwing
\* download, if any, is the last one attempted; a product whose page fetch
\* failed has produced no step, no digest block and no download.
C20_StepPrefix ==
  \A u \in MediaUrls :
    /\ IsPrefix(stepLog[u].done, StepOrder)
    /\ stepLog[u].thrownAt # NoValue
         => /\ stepLog[u].done = StepsBefore(stepLog[u].thrownAt)
            /\ stepLog[u].ended = "caught"
            /\ u \notin DOMAIN productTasks
    /\ \A n \in 1..Len(stepLog[u].attempts) :
         DownloadFile(stepLog[u].attempts[n].outcome) = "rejected"
           => /\ n = Len(stepLog[u].attempts)
              /\ stepLog[u].thrownAt = stepLog[u].attempts[n].kind
    /\ FetchFailed(u) => NothingProduced(u)

\* the digest append threw after the report was written
C20_Witness ==
  /\ stepLog[ProdX].thrownAt = "appendToFile"
  /\ stepLog[ProdX].done = << "goto", "ensureDir", "writeFile" >>
  /\ ~Wrote(ProdX)

C14_DistinctDirs ==
  \A u, v \in DigestUrls :
    (u # v /\ outDir[u] # NoValue /\ outDir[v] # NoValue) => outDir[u] # outDir[v]

\* t is s with every hyphen turned into a space and the first character of
\* every hyphen-delimited word in upper case
IsTitleCased(t, s) ==
  /\ Len(t) = Len(s)
  /\ \A i \in 1..Len(s) :
       IF s[i] = "-" THEN t[i] = " "
       ELSE IF i = 1 \/ s[i - 1] = "-" THEN t[i] = UpperOf[s[i]]
       ELSE t[i] = s[i]

Applied == arg # Unset /\ result # Unset

\* the claim of C15 as worded: wherever the URL has a collections segment
\* followed by a non-empty segment and a further '/', the result is that
\* segment title-cased.
C15_AnyCollections ==
  Applied =>
    \A i \in 1..(Len(arg[1].url) - 2) :
      (arg[1].url[i] = Collections /\ arg[1].url[i + 1] # <<>>)
        => IsTitleCased(result[1], arg[1].url[i + 1])

\* C15: when the first collections segment of the URL is followed by a
\* non-empty segment, determineCategory returns that segment title-cased
\* (each hyphen a space, the first letter of each word in upper case),
\* whatever the product name and the category list are.
C15_FirstCollections ==
  Applied =>
    \A i \in 1..(Len(arg[1].url) - 1) :
      ( /\ arg[1].url[i] = Collections
        /\ \A j \in 1..(i - 1) : arg[1].url[j] # Collections
        /\ arg[1].url[i + 1] # <<>> )
        => IsTitleCased(result[1], arg[1].url[i + 1])

\* /collections/a-B/ gave "A B" for a product name that contains "access"
C15_Witness ==
  /\ Applied
  /\ arg[1].url = StorePrefix \o << Collections, << "a", "-", "B" >>, <<>> >>
  /\ arg[1].productName = << "a", "c", "c", "e", "s", "s" >>
  /\ arg[1].categories = categories
  /\ result[1] = << "A", " ", "B" >>

NoUsableCollections(url) ==
  \A i \in 1..Len(url) :
    url[i] = Collections => (i = Len(url) \/ url[i + 1] = <<>>)

\* c occurs in name at some offset, letter case apart
OccursIn(c, name) ==
  \E off \in 0..(Len(name) - Len(c)) :
    \A i \in 1..Len(c) : LowerOf[name[off + i]] = LowerOf[c[i]]

\* C16: when no collections segment of the URL is followed by a non-empty
\* segment, the result is the first category of the list, in list order,
\* that occurs in the product name letter case apart, and "Other" when
\* none does.
C16_FirstCategoryByName ==
  (Applied /\ NoUsableCollections(arg[1].url)) =>
    \/ \E k \in 1..Len(arg[1].categories) :
         /\ result[1] = arg[1].categories[k]
         /\ OccursIn(arg[1].categories[k], arg[1].productName)
         /\ \A j \in 1..(k - 1) : ~OccursIn(arg[1].categories[j], arg[1].productName)
    \/ /\ result[1] = Other
       /\ \A k \in 1..Len(arg[1].categories) :
            ~OccursIn(arg[1].categories[k], arg[1].productName)

\* "Door accessories" holds Access, Door Access and Accessories; the list
\* order made it Access
C16_Witness ==
  /\ Applied
  /\ arg[1].url = StorePrefix
  /\ arg[1].categories = categories
  /\ arg[1].productName =
       << "D", "o", "o", "r", " ", "a", "c", "c", "e", "s", "s",
          "o", "r", "i", "e", "s" >>
  /\ result[1] = << "A", "c", "c", "e", "s", "s" >>

\* C17: every URL extractLinks returns is absolute and resolved, its path
\* ends in one of the requested extensions letter case apart, and no URL
\* is returned twice; values the URL constructor rejects are not returned.
C17_PathExtension ==
  (arg # Unset /\ result # Unset) =>
    /\ \A i \in 1..Len(result[1]) :
         /\ result[1][i].valid
         /\ result[1][i].host[1] # ""
         /\ InSeq(LowerExt(result[1][i].path[2]), arg[1].fileExtensions)
    /\ NoRepeats(result[1])

Qualifies(row) ==
  Len(row) >= 2 /\ TrimText(row[1]) # "" /\ TrimText(row[2]) # ""

\* specs holds exactly the qualifying rows' keys, each with the value of
\* the last qualifying row that has the key
IsEntriesOf(specs, rows) ==
  LET good == { i \in 1..Len(rows) : Qualifies(rows[i]) }
  IN /\ DOMAIN specs = { TrimText(rows[i][1]) : i \in good }
     /\ \A i \in good :
          (\A j \in good : j > i => TrimText(rows[j][1]) # TrimText(rows[i][1]))
            => specs[TrimText(rows[i][1])] = TrimText(rows[i][2])

Yields(rows) == \E i \in 1..Len(rows) : Qualifies(rows[i])

TablesOf(page) == << page.main >> \o page.further

\* table n comes before table m in the order selectors, then document
EarlierTable(page, n, m) ==
  \/ TablesOf(page)[n].sel < TablesOf(page)[m].sel
  \/ TablesOf(page)[n].sel = TablesOf(page)[m].sel /\ n < m

ListRows(page) == IF page.lists = <<>> THEN <<>> ELSE PairsOf(page.lists[1])

\* the claim of C18 as worded: the result is the entries of the one table
\* that comes first, by selector, among the tables that yield an entry,
\* and the entries of the lists when no table yields one.
C18_FirstTableOnly ==
  (arg # Unset /\ result # Unset) =>
    LET page == arg[1]
        yielding == { n \in 1..Len(TablesOf(page)) : Yields(TablesOf(page)[n].rows) }
    IN IF yielding = {} THEN IsEntriesOf(result[1], ListRows(page))
       ELSE \E n \in yielding :
              /\ \A m \in yielding : m = n \/ EarlierTable(page, n, m)
              /\ IsEntriesOf(result[1], TablesOf(page)[n].rows)

\* C18: the result is the entries of all the rows matched by the first
\* selector, in list order, whose rows yield an entry: the first two cells
\* of each row with at least two cells and non-empty key and value; it is
\* the entries of the dl lists when no selector's rows yield one; entries
\* of tables matched by another selector or of a list are not in a table
\* result.
C18_FirstSelector ==
  (arg # Unset /\ result # Unset) =>
    LET page == arg[1]
        yielding == { k \in 1..Len(specSelectors) : Yields(RowsOf(page, k)) }
    IN IF yielding = {} THEN IsEntriesOf(result[1], ListRows(page))
       ELSE \E k \in yielding :
              /\ \A j \in yielding : k <= j
              /\ IsEntriesOf(result[1], RowsOf(page, k))

\* the rows (Key1, Val1), ("", ""), (Key2, Val2) under the second selector
\* gave Key1: Val1 and Key2: Val2, although a table under a later selector
\* and a list have other values for Key2
C18_Witness ==
  /\ arg # Unset /\ result # Unset
  /\ arg[1].main =
       [sel |-> 2, rows |-> << << "Key1", "Val1" >>, << "", "" >>, << "Key2", "Val2" >> >>]
  /\ arg[1].further = << [sel |-> 4, rows |-> << << "Key2", "Val1" >> >>] >>
  /\ arg[1].lists # <<>>
  /\ DOMAIN result[1] = { "Key1", "Key2" }
  /\ result[1]["Key1"] = "Val1"
  /\ result[1]["Key2"] = "Val2"

====
